---- MODULE Spec2Model ----
(***************************************************************************)
(* Smart News Aggregator: the ingestion core.                              *)
(*                                                                         *)
(* A tool call: a scraper (scrape_<source>_top_n) fetches a feed, takes   *)
(* its first n items and fetches each item's article page, and            *)
(* the tool function around it (agent.py: get_<source>_news, or           *)
(* mcp_server.py: get_<source>_news_mcp) turns the scraper's outcome into *)
(* what the caller sees.  Every network response is an input chosen by    *)
(* the environment when the request is made.                              *)
(*                                                                         *)
(* Spec runs one call after the other; SpecRepeat makes a finished call   *)
(* a second time with the same responses; SpecSide runs two calls for     *)
(* different sources side by side.                                        *)
(*                                                                         *)
(* Python values: None is <<>> and a present value v is <<v>>; a text is  *)
(* a sequence of tokens, the empty string being <<>>.                     *)
(***************************************************************************)
EXTENDS Integers, Sequences, FiniteSets, TLC

VARIABLES
    pc,        \* "idle" | "index" | "feed" | "loop" | "done": where the call stands
    source,    \* which scraper runs
    caller,    \* "agent" (get_<source>_news) or "mcp" (get_<source>_news_mcp)
    limit,     \* the limit / n argument
    state_id,  \* the state argument of the States tools (None for the others)
    rss_url,   \* the feed URL the States scraper resolved (None before)
    fault,     \* what the network did to the feed resolution ("none" if nothing)
    feed,      \* the feed document the network returned (None before)
    items,     \* soup.find_all("item")[:n]
    results,   \* the scraper's results list
    pages,     \* the article page responses so far, one per processed item
    net,       \* every requests.get issued during the call, in order
    log,       \* every print of the scraper during the call, in order
    outcome,   \* "none" | "returned" | "raised": how the tool function ended
    ret,       \* what the tool function returned
    exc,       \* the exception that left the tool function (None if none)
    inputs,    \* every response the call received, in order
    tool_name, \* the name in the call_tool request of an MCP call (None otherwise)
    reply,     \* what call_mcp_tool answered (None before, and for agent calls)
    prev,      \* the finished call that the running call repeats (None if none)
    other,     \* the locals of the call that runs beside this one, while this
               \* one is scheduled
    agent_pc,      \* "rest" | "started" | "guarded": where the agent run stands
    ctx_state,     \* callback_context.state, the state of the session
    llm_contents,  \* llm_request.contents of the last guarded request
    guard_ret,     \* what input_guardrail returned for it (None before)
    state_before,  \* the session state when input_guardrail was entered
    mail_pc,       \* "idle" | "connect" | "starttls" | "login" | "send" | "done"
    mail_args,     \* the environment and the arguments of send_email_smtp
    smtp_ops,      \* what was asked of the SMTP server, in order
    mail_ret,      \* what send_email_smtp returned (None before)
    mail_exc,      \* the exception that left send_email_smtp (None if none)
    front_pc,      \* "ready" | "init" | "run": where the front-end's script stands
    chat_history,  \* st.session_state.chat_history
    processing,    \* st.session_state.processing
    quick_query,   \* st.session_state.quick_query
    user_input,    \* the input being handled (None if none)
    adk_session_id,           \* st.session_state.adk_session_id
    adk_session_initialized,  \* st.session_state.adk_session_initialized
    adk_sessions,  \* the session IDs create_session succeeded for, in order
    runner_runs,   \* every runner.run of the front-end: its session ID, and
                   \* whether a session had been created under it
    crewai_available,  \* CREWAI_AVAILABLE (None until the module is imported)
    crewai_instance,   \* the module global _crewai_instance
    crew_built,        \* how many times NewsAnalysisCrewAI() has been entered
    crew_log           \* the calls of the bridge made so far, in order

\* the variables of a tool call
callVars == <<pc, source, caller, limit, state_id, rss_url, fault, feed, items,
              results, pages, net, log, outcome, ret, exc, inputs, tool_name,
              reply, prev, other>>

\* the variables of an agent run in a session
guardVars == <<agent_pc, ctx_state, llm_contents, guard_ret, state_before>>

\* the variables of a call of send_email_smtp
mailVars == <<mail_pc, mail_args, smtp_ops, mail_ret, mail_exc>>

\* the variables of the front-end
frontVars == <<front_pc, chat_history, processing, quick_query, user_input,
               adk_session_id, adk_session_initialized, adk_sessions,
               runner_runs>>

\* the variables of the CrewAI bridge
crewVars == <<crewai_available, crewai_instance, crew_built, crew_log>>

\* what a step of a tool call leaves alone, what a step of an agent run
\* does, what a step of send_email_smtp does, what a step of the front-end
\* does, and what a step of the bridge does
besideVars == <<guardVars, mailVars, frontVars, crewVars>>

besideGuard == <<callVars, mailVars, frontVars, crewVars>>

besideMail == <<callVars, guardVars, frontVars, crewVars>>

besideFront == <<callVars, guardVars, mailVars, crewVars>>

besideCrew == <<callVars, guardVars, mailVars, frontVars>>

vars == <<callVars, besideVars>>

-----------------------------------------------------------------------------
(* Bounds of the model *)

MaxFeed == 3

MaxLimit == 3

\* the longest feed document of the runs in which calls are repeated
MaxRepeatFeed == 2

\* the longest feed document, and the largest limit, of the runs in which two
\* calls run side by side
MaxSideFeed == 1

MaxSideLimit == 1

\* the longest llm_request.contents, and the most agent runs of a session
MaxContents == 2

MaxRuns == 2

\* the most inputs handled into one chat history, and the most session IDs
\* the front-end draws
MaxChat == 2

MaxSessionIds == 2

\* the most calls made of the CrewAI bridge
MaxCrewCalls == 3

-----------------------------------------------------------------------------
(* Python values *)

None == <<>>

Some(v) == <<v>>

IsNone(o) == o = <<>>

Min(a, b) == IF a <= b THEN a ELSE b

Max(a, b) == IF a >= b THEN a ELSE b

\* s[:n + 1]: the slice taken one too far
SliceOneTooFar(s, n) == SubSeq(s, 1, Min(n + 1, Len(s)))

\* no slice: every item of the feed goes into the loop
SliceNothing(s, n) == s

\* s[:n]
SlicePrefix(s, n) ==
    IF n >= 0 THEN SubSeq(s, 1, Min(n, Len(s)))
              ELSE SubSeq(s, 1, Max(0, Len(s) + n))

RECURSIVE Join(_, _)
\* sep.join(texts), texts a sequence of texts
Join(texts, sep) ==
    IF texts = <<>> THEN <<>>
    ELSE IF Len(texts) = 1 THEN texts[1]
    ELSE texts[1] \o <<sep>> \o Join(Tail(texts), sep)

\* Python truthiness of an Optional[str]: None and "" are falsy
Truthy(o) == o # None /\ o[1] # <<>>

\* str.lower() of one token: the tokens with capitals and their lowercase
LowerTok(c) ==
    CASE c = "Delhi"  -> "delhi"
      [] c = "News"   -> "news"
      [] c = "MURDER" -> "murder"
      [] OTHER        -> c

\* t.lower()
Lower(t) == [k \in 1..Len(t) |-> LowerTok(t[k])]

RECURSIVE LStrip(_)
LStrip(t) == IF t # <<>> /\ t[1] = " " THEN LStrip(Tail(t)) ELSE t

RECURSIVE RStrip(_)
RStrip(t) ==
    IF t # <<>> /\ t[Len(t)] = " " THEN RStrip(SubSeq(t, 1, Len(t) - 1)) ELSE t

\* t.strip(): the whitespace at both ends removed
Strip(t) == RStrip(LStrip(t))

-----------------------------------------------------------------------------
(* The environment: feed documents, the index page, article pages *)

Sources == {"national", "international", "sports", "states"}

Callers == {"agent", "mcp"}

Limits == 0..MaxLimit

FetchErrors == {"Timeout", "HTTPError"}

\* region identifiers a caller may pass: texts, a text being a sequence of
\* words and whitespace
RegionIds ==
    {<<"delhi">>, <<"goa">>, <<"pune">>, <<"atlantis">>, <<" ", "Delhi">>}

\* the state argument of a tool call of the agent: left out (None), blank, or
\* a region identifier
StateArgs == {None} \cup {Some(t) : t \in RegionIds \cup {<<>>, <<" ">>}}

\* the index page: its elements that carry an id, with their href
IndexPage ==
    {[id |-> <<"delhi">>, href |-> Some(<<"rss_delhi", 0>>)],
     [id |-> <<"goa">>,   href |-> None]}

IndexResponses ==
    {[fetch |-> e, page |-> {}] : e \in FetchErrors}
        \cup {[fetch |-> "ok", page |-> IndexPage]}

Shapes == {"full", "minimal", "notitle", "nolink", "again"}

\* the feed entry at position pos: "full" has every child element, "minimal"
\* only the title and the link, "notitle" and "nolink" lack a required one,
\* "again" is a full entry that lists the link of the feed's first entry
MkItem(pos, shape) ==
    [title       |-> IF shape = "notitle" THEN None ELSE Some(<<"title", pos>>),
     link        |-> IF shape = "nolink" THEN None
                     ELSE IF shape = "again" THEN Some(<<"link", 1>>)
                     ELSE Some(<<"link", pos>>),
     guid        |-> IF shape = "nolink" THEN None
                     ELSE IF shape = "again" THEN Some(<<"link", 1>>)
                     ELSE Some(<<"link", pos>>),
     pubDate     |-> IF shape = "minimal" THEN None ELSE Some(<<"date", pos>>),
     category    |-> IF shape = "minimal" THEN None ELSE Some(<<"cat", pos>>),
     description |-> IF shape = "minimal" THEN None ELSE Some(<<"desc", pos>>),
     creator     |-> IF shape = "minimal" THEN None ELSE Some(<<"author", pos>>),
     media       |-> IF shape = "minimal" THEN None ELSE Some(<<"img", pos>>),
     enclosure   |-> IF shape = "minimal" THEN None ELSE Some(<<"img", pos>>)]

ShapeSeqs == UNION {[1..k -> Shapes] : k \in 0..MaxFeed}

FeedOf(shapes) == [p \in 1..Len(shapes) |-> MkItem(p, shapes[p])]

\* a feed document: well-formed with its entries, or not parseable at all
FeedDocs ==
    {[wellformed |-> TRUE, entries |-> FeedOf(s)] : s \in ShapeSeqs}
        \cup {[wellformed |-> FALSE, entries |-> <<>>]}

FeedResponses ==
    {[fetch |-> e, doc |-> None] : e \in FetchErrors}
        \cup {[fetch |-> "ok", doc |-> Some(d)] : d \in FeedDocs}

\* article pages: the content container (if the page has it) as the sequence
\* of its child nodes; the page that extracts well has a caption between its
\* two paragraphs
PageOk ==
    [fetch |-> "ok", container |-> Some(<<[tag |-> "p", text |-> <<"a">>],
                                          [tag |-> "figcaption", text |-> <<"x">>],
                                          [tag |-> "p", text |-> <<"b">>]>>)]

PageNoParagraphs == [fetch |-> "ok", container |-> Some(<<>>)]

PageNoContainer == [fetch |-> "ok", container |-> None]

PageResponses ==
    {PageOk, PageNoParagraphs, PageNoContainer}
        \cup {[fetch |-> e, container |-> None] : e \in FetchErrors}

-----------------------------------------------------------------------------
(* Article extraction *)

Paragraphs(nodes) == SelectSeq(nodes, LAMBDA nd : nd.tag = "p")

TextsOf(nodes) == [k \in 1..Len(nodes) |-> nodes[k].text]

\* extract_article_text without its try/except: the exception of
\* requests.get / raise_for_status leaves the extractor
ExtractParagraphsUncaught(url, page) ==
    IF page.fetch # "ok"
    THEN [raised |-> TRUE, value |-> None, print |-> None,
          e |-> Some([type |-> page.fetch, about |-> url])]
    ELSE IF IsNone(page.container)
    THEN [raised |-> FALSE, value |-> None, e |-> None,
          print |-> Some([tag |-> "no_container", url |-> url])]
    ELSE [raised |-> FALSE, e |-> None, print |-> None,
          value |-> Some(Join(TextsOf(Paragraphs(page.container[1])), "\n"))]

\* extract_article_text / extract_un_article / extract_ie_article: whether an
\* exception leaves the extractor (the except clause catches every one), the
\* value returned and the line printed (None if nothing is printed)
ExtractParagraphs(url, page) ==
    IF page.fetch # "ok"
    THEN [raised |-> FALSE, value |-> None, e |-> None,
          print |-> Some([tag |-> "extract_error", url |-> url, e |-> page.fetch])]
    ELSE IF IsNone(page.container)
    THEN [raised |-> FALSE, value |-> None, e |-> None,
          print |-> Some([tag |-> "no_container", url |-> url])]
    ELSE [raised |-> FALSE, e |-> None, print |-> None,
          value |-> Some(Join(TextsOf(Paragraphs(page.container[1])), "\n"))]

\* extract_toi_article: the container's whole text, pieces joined by newlines
ExtractToi(url, page) ==
    IF page.fetch # "ok"
    THEN [raised |-> FALSE, value |-> None, e |-> None,
          print |-> Some([tag |-> "extract_error", url |-> url, e |-> page.fetch])]
    ELSE IF IsNone(page.container)
    THEN [raised |-> FALSE, value |-> None, e |-> None,
          print |-> Some([tag |-> "no_container", url |-> url])]
    ELSE [raised |-> FALSE, e |-> None, print |-> None,
          value |-> Some(Join(SelectSeq(TextsOf(page.container[1]),
                                        LAMBDA t : t # <<>>), "\n"))]

ExtractArticle(src, url, page) ==
    IF src = "states" THEN ExtractToi(url, page) ELSE ExtractParagraphs(url, page)

-----------------------------------------------------------------------------
(* The scrapers *)

\* requests.get with a retry on failure: the request is issued a second time
RequestsRetried(url, r) == IF r.fetch # "ok" THEN <<url, url>> ELSE <<url>>

\* requests.get(url, headers=headers, timeout=10), answered by r: the
\* requests it puts on the wire
Requests(url, r) == <<url>>

INDEX_URL == <<"toi_index", 0>>

\* HINDU_RSS_URL, UN_RSS_URL, IE_RSS_URL; the States feed URL is resolved
StaticFeedUrl(src) == <<src, 0>>

\* BeautifulSoup(resp.text, "xml").find_all("item"): lenient, a document
\* that is not parseable yields no items
ParseFeed(doc) == IF doc.wellformed THEN doc.entries ELSE <<>>

\* the element the link is read from: International reads guid
LinkOf(src, item) == IF src = "international" THEN item.guid ELSE item.link

\* the element the image URL is read from
ImageOf(src, item) ==
    IF src \in {"national", "sports"} THEN item.media ELSE item.enclosure

\* item.title.get_text / item.link.get_text raise AttributeError on None
Malformed(src, item) == IsNone(item.title) \/ IsNone(LinkOf(src, item))

\* the dict appended to results for one item
MkResult(src, item, article) ==
    LET base == [title     |-> item.title[1],
                 link      |-> LinkOf(src, item)[1],
                 date      |-> item.pubDate,
                 article   |-> article,
                 image_url |-> ImageOf(src, item)]
    IN  CASE src = "national"      -> base @@ [category |-> item.category]
          [] src = "international" -> base @@ [description |-> item.description]
          [] src = "sports"        -> base @@ [author |-> item.creator]
          [] OTHER                 -> base

\* results.insert(0, d): the newest dict put first
PrependResult(rs, d) == <<d>> \o rs

\* results a module-level list that every running call appends to
AppendResultShared(rs, d) == Append(other.results \o rs, d)

\* results.append(d)
AppendResult(rs, d) == Append(rs, d)

\* soup.find(id=state_id): the element of the index page with that id, or None
FindById(page, sid) ==
    IF \E a \in page : a.id = sid
    THEN Some(CHOOSE a \in page : a.id = sid)
    ELSE None

\* the lookup without its "if not state_link" guard: state_link.get("href")
\* on None raises AttributeError
ResolveFeedUnguarded(page, sid, lg) ==
    LET state_link == FindById(page, sid)
    IN  IF IsNone(state_link)
        THEN [ended |-> TRUE, href |-> None,
              so    |-> [raised |-> TRUE, val |-> <<>>,
                         e |-> Some([type  |-> "AttributeError",
                                     about |-> <<"state_link", 0>>])],
              log   |-> lg]
        ELSE [ended |-> IsNone(state_link[1].href), href |-> state_link[1].href,
              so    |-> [raised |-> IsNone(state_link[1].href), val |-> <<>>,
                         e |-> IF IsNone(state_link[1].href)
                               THEN Some([type  |-> "MissingSchema",
                                          about |-> <<"None", 0>>])
                               ELSE None],
              log   |-> Append(lg, [tag |-> "fetching_rss",
                                    url |-> state_link[1].href])]

\* the lookup falling back to a default feed when the id is not on the page
ResolveFeedDefault(page, sid, lg) ==
    LET state_link == FindById(page, sid)
        href == IF IsNone(state_link) \/ IsNone(state_link[1].href)
                THEN Some(<<"rss_default", 0>>)
                ELSE state_link[1].href
    IN  [ended |-> FALSE, href |-> href,
         so    |-> [raised |-> FALSE, val |-> <<>>, e |-> None],
         log   |-> Append(lg, [tag |-> "fetching_rss", url |-> href])]

\* scrape_states_top_n between the index response and the feed request: the
\* anchor is looked up and its href taken as the feed URL.  ended tells
\* whether the scraper's body ends here, and then so tells how
ResolveFeed(page, sid, lg) ==
    LET state_link == FindById(page, sid)
    IN  IF IsNone(state_link)
        THEN [ended |-> TRUE, href |-> None,
              so    |-> [raised |-> FALSE, val |-> <<>>, e |-> None],
              log   |-> Append(lg, [tag |-> "no_link_found", id |-> sid])]
        ELSE LET href == state_link[1].href
                 lg2  == Append(lg, [tag |-> "fetching_rss", url |-> href])
             IN  IF IsNone(href)
                 THEN [ended |-> TRUE, href |-> href,
                       so    |-> [raised |-> TRUE, val |-> <<>>,
                                  e |-> Some([type  |-> "MissingSchema",
                                              about |-> <<"None", 0>>])],
                       log   |-> lg2]
                 ELSE [ended |-> FALSE, href |-> href,
                       so    |-> [raised |-> FALSE, val |-> <<>>, e |-> None],
                       log   |-> lg2]

\* how a scraper's body ends: with a value or with an exception
Returns(v) == [raised |-> FALSE, val |-> v, e |-> None]

Raises(e) == [raised |-> TRUE, val |-> <<>>, e |-> Some(e)]

\* scrape_states_top_n's try/except: any exception is printed and [] returned;
\* the other scrapers have none
ScraperExit(src, so, lg) ==
    IF src = "states" /\ so.raised
    THEN [so |-> Returns(<<>>),
          log |-> Append(lg, [tag |-> "states_error", e |-> so.e[1]])]
    ELSE [so |-> so, log |-> lg]

-----------------------------------------------------------------------------
(* The tool functions around the scrapers *)

VALID_STATES ==
    {<<"mumbai">>, <<"delhi">>, <<"bengaluru">>, <<"kolkata">>, <<"chennai">>,
     <<"pune">>, <<"hyderabad">>, <<"ahmedabad">>, <<"maharashtra">>,
     <<"karnataka">>, <<"west", " ", "bengal">>, <<"tamil", " ", "nadu">>,
     <<"gujarat">>, <<"uttar", " ", "pradesh">>, <<"rajasthan">>, <<"punjab">>,
     <<"kerala">>, <<"andhra", " ", "pradesh">>, <<"goa">>}

\* the name under which the agent knows the tool of a source
ToolName(src) ==
    CASE src = "states"        -> "get_states_news"
      [] src = "national"      -> "get_national_news"
      [] src = "international" -> "get_international_news"
      [] src = "sports"        -> "get_sports_news"

\* tool_guardrail comparing the argument as it was given
ToolGuardrailRaw(tool, state) ==
    IF tool = "get_states_news"
    THEN LET st == IF IsNone(state) THEN <<>> ELSE state[1]
         IN  IF st = <<>>
             THEN Some([status |-> "error", error_message |-> <<"no_state">>])
             ELSE IF st \notin VALID_STATES
             THEN Some([status |-> "error",
                        error_message |-> <<"not_valid">> \o st])
             ELSE None
    ELSE None

\* tool_guardrail(tool, args, tool_context), state being args' "state" entry
\* (None when args has none): the dict that answers the call in the tool's
\* place, or None to let the call through
ToolGuardrail(tool, state) ==
    IF tool = "get_states_news"
    THEN LET st == Strip(Lower(IF IsNone(state) THEN <<>> ELSE state[1]))
         IN  IF st = <<>>
             THEN Some([status |-> "error", error_message |-> <<"no_state">>])
             ELSE IF st \notin VALID_STATES
             THEN Some([status |-> "error",
                        error_message |-> <<"not_valid">> \o st])
             ELSE None
    ELSE None

\* NewsItem(**item): title, link and date are str (None is rejected), author
\* defaults to "", keys that are no field of the model are ignored
ValidNewsItem(d) == ~IsNone(d.date)

NewsItem(d) ==
    [title     |-> d.title,
     link      |-> d.link,
     date      |-> d.date[1],
     author    |-> IF "author" \in DOMAIN d THEN d.author ELSE Some(<<>>),
     article   |-> d.article,
     image_url |-> d.image_url]

\* wrap filtering on "is not None" instead of on truthiness
WrapKeepsEmpty(dicts) ==
    LET kept == SelectSeq(dicts, LAMBDA d : ~IsNone(d.article))
    IN  IF \E k \in 1..Len(kept) : ~ValidNewsItem(kept[k])
        THEN [raised |-> TRUE, val |-> <<>>,
              e |-> Some([type |-> "ValidationError", about |-> <<"date", 0>>])]
        ELSE [raised |-> FALSE, e |-> None,
              val |-> [k \in 1..Len(kept) |-> NewsItem(kept[k])]]

\* wrap leaving out the items whose link an earlier call returned already
WrapSkipsSeen(dicts) ==
    LET seen == IF IsNone(prev) \/ prev[1].ret.form # "list" THEN {}
                ELSE {prev[1].ret.articles[k].link :
                          k \in 1..Len(prev[1].ret.articles)}
        kept == SelectSeq(dicts, LAMBDA d : Truthy(d.article) /\ d.link \notin seen)
    IN  IF \E k \in 1..Len(kept) : ~ValidNewsItem(kept[k])
        THEN [raised |-> TRUE, val |-> <<>>,
              e |-> Some([type |-> "ValidationError", about |-> <<"date", 0>>])]
        ELSE [raised |-> FALSE, e |-> None,
              val |-> [k \in 1..Len(kept) |-> NewsItem(kept[k])]]

\* wrap: [NewsItem(**item) for item in items if item.get("article")]
Wrap(dicts) ==
    LET kept == SelectSeq(dicts, LAMBDA d : Truthy(d.article))
        bad  == {k \in 1..Len(kept) : ~ValidNewsItem(kept[k])}
    IN  IF bad # {}
        THEN Raises([type  |-> "ValidationError",
                     about |-> kept[CHOOSE k \in bad : \A j \in bad : k <= j].link])
        ELSE Returns([k \in 1..Len(kept) |-> NewsItem(kept[k])])

\* get_states_news, get_national_news, get_international_news, get_sports_news
GetNews(so) ==
    LET w == IF so.raised THEN so ELSE Wrap(so.val)
    IN  IF w.raised
        THEN [outcome |-> "raised", ret |-> [form |-> "none"], exc |-> w.e]
        ELSE [outcome |-> "returned",
              ret     |-> [form |-> "list", articles |-> w.val],
              exc     |-> None]

McpCategory(src, sid) == IF src = "states" THEN <<"states_", sid[1]>> ELSE <<src>>

\* get_states_news_mcp, get_national_news_mcp, get_international_news_mcp,
\* get_sports_news_mcp
GetNewsMcp(src, sid, so) ==
    IF so.raised
    THEN [outcome |-> "returned",
          ret     |-> [form |-> "dict", status |-> "error", error_message |-> so.e[1]],
          exc     |-> None]
    ELSE [outcome |-> "returned",
          ret     |-> [form     |-> "dict",
                       status   |-> "success",
                       category |-> McpCategory(src, sid),
                       count    |-> Len(so.val),
                       articles |-> so.val],
          exc     |-> None]

\* the name under which the MCP server exposes the tool of a source
McpToolName(src) ==
    CASE src = "states"        -> "get_states_news_mcp"
      [] src = "national"      -> "get_national_news_mcp"
      [] src = "international" -> "get_international_news_mcp"
      [] src = "sports"        -> "get_sports_news_mcp"
      [] src = "entertainment" -> "get_entertainment_news_mcp"

\* adk_tools_to_expose, each tool with the source it scrapes
ExposedTools ==
    [k \in 1..5 |->
        LET src == <<"states", "national", "international", "sports",
                     "entertainment">>[k]
        IN  [name |-> McpToolName(src), src |-> src]]

\* the names a call_tool request may carry: the exposed ones, the name of an
\* agent tool and a name of no tool at all
ToolNames ==
    {ExposedTools[k].name : k \in 1..5} \cup {"get_national_news", "get_weather"}

\* the lookup answering any name with the list's first tool
FindToolDefault(name) ==
    IF \E k \in 1..5 : ExposedTools[k].name = name
    THEN Some(ExposedTools[CHOOSE k \in 1..5 : ExposedTools[k].name = name])
    ELSE Some(ExposedTools[1])

\* call_mcp_tool's loop over adk_tools_to_expose: the tool of that name, or
\* None
FindTool(name) ==
    IF \E k \in 1..5 : ExposedTools[k].name = name
    THEN Some(ExposedTools[CHOOSE k \in 1..5 : ExposedTools[k].name = name])
    ELSE None

\* json.dumps(v): the text that encodes v
Dumps(v) == <<"json", v>>

\* [mcp_types.TextContent(type="text", text=t)]
TextContent(t) == <<[type |-> "text", text |-> t]>>

\* the scraper's body has ended with so, having printed lg: the tool function
\* around it ends
Finish(so, lg) ==
    LET x == ScraperExit(source, so, lg)
        t == IF caller = "agent" THEN GetNews(x.so)
                                 ELSE GetNewsMcp(source, state_id, x.so)
    IN  /\ pc' = "done"
        /\ log' = x.log
        /\ outcome' = t.outcome
        /\ ret' = t.ret
        /\ exc' = t.exc
        /\ reply' = IF caller = "mcp" THEN Some(TextContent(Dumps(t.ret)))
                                      ELSE None

Continue(next, lg) ==
    /\ pc' = next
    /\ log' = lg
    /\ UNCHANGED <<outcome, ret, exc, reply>>

-----------------------------------------------------------------------------
(* The callbacks of the agents on the session state *)

BANNED_WORDS ==
    {<<"kill", " ", "yourself">>,
     <<"how", " ", "to", " ", "make", " ", "a", " ", "bomb">>,
     <<"i", " ", "will", " ", "kill", " ", "you">>, <<"rape">>, <<"nazi">>,
     <<"faggot">>, <<"retard">>, <<"child", " ", "assault">>, <<"autistic">>,
     <<"murder">>}

NEWS_KEYWORDS ==
    {<<"news">>, <<"headlines">>, <<"article">>, <<"happening", " ", "in">>,
     <<"sports">>, <<"entertainment">>, <<"politics">>, <<"business">>,
     <<"tech">>, <<"latest">>, <<"updates">>, <<"breaking">>,
     <<"tell", " ", "me", " ", "about">>, <<"what's", " ", "new">>,
     <<"information">>, <<"analyze">>, <<"trends">>, <<"fact", " ", "check">>,
     <<"insights">>}

\* w in t, for two texts
Contains(w, t) ==
    \E k \in 0..(Len(t) - Len(w)) : SubSeq(t, k + 1, k + Len(w)) = w

\* the texts a part of a request can carry: of no keyword, of a keyword, of
\* a banned phrase and a keyword, of a banned phrase alone
PartTexts ==
    {None, Some(<<>>), Some(<<"hello">>), Some(<<"latest", " ", "News">>),
     Some(<<"MURDER", " ", "news">>), Some(<<"murder">>)}

\* the parts of a Content: none, one, or a first part without text before a
\* part with text
PartLists ==
    {<<>>} \cup {<<[text |-> x]>> : x \in PartTexts}
           \cup {<<[text |-> Some(<<>>)], [text |-> Some(<<"murder">>)]>>}

Contents == [role : {"user", "model"}, parts : PartLists]

\* llm_request.contents: None or empty is <<>>
RequestContents ==
    UNION {[1..n -> Contents] : n \in 0..MaxContents}

\* a session state in which no key is set
EmptyState ==
    [abort_pipeline |-> None, guardrail_output |-> None, run_counter |-> None,
     last_agent_start |-> None, last_agent_end |-> None]

POLICY_MSG ==
    "!!! I cannot process this request due to a content policy violation."

NEWS_MSG ==
    "I am a news assistant. I can fetch news, headlines, articles, and provide analysis."

\* LlmResponse(content=types.Content(role="model", parts=[types.Part(text=msg)]))
LlmResponse(msg) == [role |-> "model", parts |-> <<[text |-> Some(msg)]>>]

RECURSIVE LastUserText(_)
\* the loop over reversed(llm_request.contents): the lowered text of the
\* first part of the last user content that has one, "" if there is none
LastUserText(cs) ==
    IF cs = <<>> THEN <<>>
    ELSE LET c == cs[Len(cs)]
         IN  IF c.role = "user" /\ c.parts # <<>> /\ Truthy(c.parts[1].text)
             THEN Lower(c.parts[1].text[1])
             ELSE LastUserText(SubSeq(cs, 1, Len(cs) - 1))

\* both blocked cases: the two keys are set and the message is returned
Block(st, msg) ==
    [ret   |-> Some(LlmResponse(msg)),
     state |-> [st EXCEPT !.abort_pipeline = Some(TRUE),
                          !.guardrail_output = Some(msg)]]

\* the keyword test made before the banned-phrase test
InputGuardrailNewsFirst(st, cs) ==
    LET t == LastUserText(cs)
    IN  IF t = <<>> THEN [ret |-> None, state |-> st]
        ELSE IF ~\E w \in NEWS_KEYWORDS : Contains(w, t)
        THEN Block(st, NEWS_MSG)
        ELSE IF \E w \in BANNED_WORDS : Contains(w, t)
        THEN Block(st, POLICY_MSG)
        ELSE [ret |-> None, state |-> st]

\* input_guardrail(callback_context, llm_request): what it returns and the
\* session state it leaves
InputGuardrail(st, cs) ==
    LET t == LastUserText(cs)
    IN  IF t = <<>> THEN [ret |-> None, state |-> st]
        ELSE IF \E w \in BANNED_WORDS : Contains(w, t)
        THEN Block(st, POLICY_MSG)
        ELSE IF ~\E w \in NEWS_KEYWORDS : Contains(w, t)
        THEN Block(st, NEWS_MSG)
        ELSE [ret |-> None, state |-> st]

-----------------------------------------------------------------------------
(* send_email_smtp *)

\* os.environ.get("SMTP_PORT"): unset, a number, not a number
PortTexts == {None, Some(<<"587">>), Some(<<"smtp">>)}

\* os.environ.get("SMTP_USER"), os.environ.get("SMTP_PASS"): unset, empty, set
SecretTexts == {None, Some(<<>>), Some(<<"secret">>)}

\* to_addr: None, empty, without and with an "@"
Recipients == {None, Some(<<>>), Some(<<"nobody">>), Some(<<"a", "@", "b">>)}

\* subject, html_body
MailTexts == {<<>>, <<"digest">>}

MailArgs ==
    [port : PortTexts, user : SecretTexts, pass : SecretTexts,
     to_addr : Recipients, subject : MailTexts, html_body : MailTexts]

\* before any call
NoMail ==
    [port |-> None, user |-> None, pass |-> None, to_addr |-> None,
     subject |-> <<>>, html_body |-> <<>>]

\* int(t): a ValueError unless t is the text of a number
IntOf(t) ==
    IF t = <<"587">> THEN [raised |-> FALSE, value |-> Some(587)]
                     ELSE [raised |-> TRUE, value |-> None]

\* os.environ.get("SMTP_PORT", "587")
PortText(a) == IF IsNone(a.port) THEN <<"587">> ELSE a.port[1]

\* the three tests before the try: the error text returned, None if the
\* arguments pass
MailCheck(a) ==
    IF ~Truthy(a.user) \/ ~Truthy(a.pass)
    THEN Some(<<"ERROR: ", "missing SMTP_USER/SMTP_PASS">>)
    ELSE IF ~Truthy(a.to_addr) \/ ~Contains(<<"@">>, a.to_addr[1])
    THEN Some(<<"ERROR: ", "invalid recipient email">>)
    ELSE IF a.subject = <<>> \/ a.html_body = <<>>
    THEN Some(<<"ERROR: ", "subject/body required">>)
    ELSE None

\* the steps inside the try, and the step after each
SmtpSteps == <<"connect", "starttls", "login", "send">>

StepAfter(op) ==
    CASE op = "connect"  -> "starttls"
      [] op = "starttls" -> "login"
      [] op = "login"    -> "send"
      [] op = "send"     -> "done"

-----------------------------------------------------------------------------
(* The Streamlit front-end *)

\* what st.chat_input returns: nothing, or a text
Prompts == {None, Some(<<"headlines">>)}

\* the queries of the quick-action and example buttons
QuickQueries == {<<"Get me the latest sports news">>}

\* what runner.run yields: a final response, responses none of which is
\* final, no response, or an exception
AgentOutcomes == {"final", "parts", "silent", "raised"}

\* what send_message_to_agent returns for it
AgentResponse(o) ==
    CASE o = "final"  -> <<"final response">>
      [] o = "parts"  -> Join(<<<<"response 1">>, <<"response 2">>>>, "\n\n")
      [] o = "silent" -> <<"No response from agent">>
      [] o = "raised" -> <<"Error processing request: ", "error">>

\* an append that keeps the user messages only
ChatAppendUserOnly(history, role, content) ==
    IF role = "user" THEN Append(history, [role |-> role, content |-> content])
                     ELSE history

\* chat_history.append({"role": ..., "content": ..., "timestamp": ...})
ChatAppend(history, role, content) ==
    Append(history, [role |-> role, content |-> content])

\* init_adk_session(): the sessions the service holds and the flag after
\* it, created telling whether create_session succeeded
InitAdkSession(created) ==
    IF ~adk_session_initialized /\ created
    THEN [sessions |-> Append(adk_sessions, adk_session_id), flag |-> TRUE]
    ELSE [sessions |-> adk_sessions, flag |-> adk_session_initialized]

-----------------------------------------------------------------------------
(* The CrewAI bridge *)

\* the articles handed to the bridge: none, one with a text, one whose
\* article is None
ArticleLists ==
    {<<>>,
     <<[title |-> <<"t">>, article |-> Some(<<"body">>)]>>,
     <<[title |-> <<"t">>, article |-> None]>>}

AnalysisTypes == {"comprehensive", "trends", "fact_check", "sentiment"}

\* a constructor entered on every call, whatever is stored
GetCrewaiInstanceAlwaysNew(stored, fresh, ok) ==
    IF ok THEN [raised |-> FALSE, value |-> Some(fresh), stored |-> Some(fresh),
                entered |-> TRUE]
          ELSE [raised |-> TRUE, value |-> None, stored |-> stored,
                entered |-> TRUE]

\* get_crewai_instance(): stored is _crewai_instance, fresh the object that
\* NewsAnalysisCrewAI() builds if it is entered, ok whether it returns
GetCrewaiInstance(stored, fresh, ok) ==
    IF IsNone(stored)
    THEN IF ok THEN [raised |-> FALSE, value |-> Some(fresh),
                     stored |-> Some(fresh), entered |-> TRUE]
               ELSE [raised |-> TRUE, value |-> None, stored |-> None,
                     entered |-> TRUE]
    ELSE [raised |-> FALSE, value |-> stored, stored |-> stored,
          entered |-> FALSE]

\* crew.analyze_news_batch(articles, analysis_type), kick telling whether
\* crew.kickoff() returns
AnalyzeNewsBatch(articles, analysis_type, kick) ==
    IF articles = <<>>
    THEN [raised |-> FALSE,
          value  |-> [status |-> "error", message |-> <<"No articles provided">>]]
    ELSE IF \E k \in 1..Len(articles) : IsNone(articles[k].article)
    THEN [raised |-> TRUE, value |-> [status |-> "none"]]
    ELSE IF analysis_type \notin {"comprehensive", "trends", "fact_check"}
    THEN [raised |-> FALSE,
          value  |-> [status  |-> "error",
                      message |-> <<"Unknown analysis type: ", analysis_type>>]]
    ELSE IF kick
    THEN [raised |-> FALSE,
          value  |-> [status |-> "success", analysis_type |-> analysis_type,
                      articles_analyzed |-> Len(articles),
                      result |-> <<"result">>]]
    ELSE [raised |-> FALSE,
          value  |-> [status  |-> "error",
                      message |-> <<"CrewAI analysis failed: ", "error">>]]

-----------------------------------------------------------------------------
(* Actions *)

\* the locals of a call that has not begun
IdleCall ==
    [pc |-> "idle", source |-> "national", caller |-> "agent", limit |-> 0,
     state_id |-> None, rss_url |-> None, fault |-> "none", feed |-> None,
     items |-> <<>>, results |-> <<>>, pages |-> <<>>, net |-> <<>>,
     log |-> <<>>, outcome |-> "none", ret |-> [form |-> "none"], exc |-> None,
     inputs |-> <<>>, tool_name |-> None, reply |-> None]

\* the locals of the scheduled call
ThisCall ==
    [pc |-> pc, source |-> source, caller |-> caller, limit |-> limit,
     state_id |-> state_id, rss_url |-> rss_url, fault |-> fault, feed |-> feed,
     items |-> items, results |-> results, pages |-> pages, net |-> net,
     log |-> log, outcome |-> outcome, ret |-> ret, exc |-> exc,
     inputs |-> inputs, tool_name |-> tool_name,
     reply |-> reply]

\* the scheduled call's locals become those of c
Load(c) ==
    /\ pc' = c.pc
    /\ source' = c.source
    /\ caller' = c.caller
    /\ limit' = c.limit
    /\ state_id' = c.state_id
    /\ rss_url' = c.rss_url
    /\ fault' = c.fault
    /\ feed' = c.feed
    /\ items' = c.items
    /\ results' = c.results
    /\ pages' = c.pages
    /\ net' = c.net
    /\ log' = c.log
    /\ outcome' = c.outcome
    /\ ret' = c.ret
    /\ exc' = c.exc
    /\ inputs' = c.inputs
    /\ tool_name' = c.tool_name
    /\ reply' = c.reply

Init ==
    /\ pc = "idle"
    /\ source = "national"
    /\ caller = "agent"
    /\ limit = 0
    /\ state_id = None
    /\ rss_url = None
    /\ fault = "none"
    /\ feed = None
    /\ items = <<>>
    /\ results = <<>>
    /\ pages = <<>>
    /\ net = <<>>
    /\ log = <<>>
    /\ outcome = "none"
    /\ ret = [form |-> "none"]
    /\ exc = None
    /\ inputs = <<>>
    /\ tool_name = None
    /\ reply = None
    /\ prev = None
    /\ other = IdleCall
    /\ agent_pc = "rest"
    /\ ctx_state = EmptyState
    /\ llm_contents = <<>>
    /\ guard_ret = None
    /\ state_before = EmptyState
    /\ mail_pc = "idle"
    /\ mail_args = NoMail
    /\ smtp_ops = <<>>
    /\ mail_ret = None
    /\ mail_exc = None
    /\ front_pc = "ready"
    /\ chat_history = <<>>
    /\ processing = FALSE
    /\ quick_query = None
    /\ user_input = None
    /\ adk_session_id = 1
    /\ adk_session_initialized = FALSE
    /\ adk_sessions = <<>>
    /\ runner_runs = <<>>
    /\ crewai_available = None
    /\ crewai_instance = None
    /\ crew_built = 0
    /\ crew_log = <<>>

\* the tool function has returned (or raised) and its frame is gone: nothing
\* of the call is kept
Leave ==
    /\ pc = "done"
    /\ Load(IdleCall)
    /\ prev' = None
    /\ UNCHANGED <<other, besideVars>>

\* the tool of src is entered with its arguments.  A call of the agent goes
\* through tool_guardrail first (before_tool_callback): when that answers
\* with a dict, the dict is the call's result and the tool function is not run
Enter(src, cl, n, sid) ==
    /\ src # "states" => IsNone(sid)
    /\ (src = "states" /\ cl = "mcp") => (~IsNone(sid) /\ sid[1] \in RegionIds)
    /\ LET g == IF cl = "agent" THEN ToolGuardrail(ToolName(src), sid) ELSE None
       IN  IF IsNone(g)
           THEN /\ pc' = IF src = "states" THEN "index" ELSE "feed"
                /\ outcome' = "none"
                /\ ret' = [form |-> "none"]
           ELSE /\ pc' = "done"
                /\ outcome' = "returned"
                /\ ret' = [form          |-> "dict",
                           status        |-> g[1].status,
                           error_message |-> g[1].error_message]
    /\ source' = src
    /\ caller' = cl
    /\ limit' = n
    /\ state_id' = sid
    /\ rss_url' = IF src = "states" THEN None ELSE Some(StaticFeedUrl(src))
    /\ fault' = "none"
    /\ feed' = None
    /\ items' = <<>>
    /\ results' = <<>>
    /\ pages' = <<>>
    /\ net' = <<>>
    /\ log' = <<>>
    /\ exc' = None
    /\ inputs' = <<>>
    /\ tool_name' = IF cl = "mcp" THEN Some(McpToolName(src)) ELSE None
    /\ reply' = None

\* a tool is called: by the agent, or by call_mcp_tool for a request with
\* the name of the tool
Invoke(src, cl, n, sid) ==
    /\ pc = "idle"
    /\ Enter(src, cl, n, sid)
    /\ UNCHANGED <<prev, other, besideVars>>

\* call_mcp_tool for a request that runs no tool function: the name is the
\* name of no exposed tool, or matching_tool.run_async raises before the
\* tool function is entered (raises tells which)
CallToolNoRun(name, raises) ==
    /\ pc = "idle"
    /\ LET t == FindTool(name)
       IN  IF IsNone(t)
           THEN reply' = Some(TextContent(Dumps(
                    [status        |-> "error",
                     error_message |-> <<"Tool '", name,
                                         "' not implemented by this server.">>])))
           ELSE /\ raises
                /\ reply' = Some(TextContent(Dumps(
                       [status        |-> "error",
                        error_message |-> <<"Failed to execute tool '", name,
                                            "': ", "error">>])))
    /\ pc' = "done"
    /\ caller' = "mcp"
    /\ tool_name' = Some(name)
    /\ UNCHANGED <<source, limit, state_id, rss_url, fault, feed, items, results,
                   pages, net, log, outcome, ret, exc, inputs, prev, other,
                   besideVars>>

\* the network answers the call's next request with r: anything, unless the
\* call repeats an earlier one, and then what the earlier one received
Answers(r) ==
    IF IsNone(prev) THEN TRUE
    ELSE /\ Len(inputs) < Len(prev[1].inputs)
         /\ r = prev[1].inputs[Len(inputs) + 1].r

\* scrape_states_top_n, first hop: the index page is requested and answered
IndexResponse(r) ==
    /\ pc = "index"
    /\ Answers(r)
    /\ net' = net \o Requests(INDEX_URL, r)
    /\ inputs' = Append(inputs, [op |-> "index", r |-> r])
    /\ UNCHANGED <<tool_name, source, caller, limit, state_id, feed, items,
                   results, pages, prev, other, besideVars>>
    /\ IF r.fetch # "ok"
       THEN /\ rss_url' = None
            /\ fault' = "index_fetch"
            /\ Finish(Raises([type |-> r.fetch, about |-> INDEX_URL]), log)
       ELSE LET x == ResolveFeed(r.page, state_id[1], log)
            IN  /\ rss_url' = x.href
                /\ fault' = IF \A a \in r.page : a.id # state_id[1]
                            THEN "region_not_found"
                            ELSE IF x.ended THEN "no_href" ELSE "none"
                /\ IF x.ended THEN Finish(x.so, x.log) ELSE Continue("feed", x.log)

\* the feed is requested and answered; its first n items are kept
FeedResponse(r) ==
    /\ pc = "feed"
    /\ Answers(r)
    /\ net' = net \o Requests(rss_url[1], r)
    /\ inputs' = Append(inputs, [op |-> "feed", r |-> r])
    /\ UNCHANGED <<tool_name, source, caller, limit, state_id, rss_url,
                   results, pages, prev, other, besideVars>>
    /\ IF r.fetch # "ok"
       THEN /\ UNCHANGED <<feed, items>>
            /\ fault' = "feed_fetch"
            /\ Finish(Raises([type |-> r.fetch, about |-> rss_url[1]]), log)
       ELSE LET its == SlicePrefix(ParseFeed(r.doc[1]), limit)
            IN  /\ feed' = r.doc
                /\ items' = its
                /\ fault' = IF r.doc[1].wellformed THEN "none" ELSE "feed_parse"
                /\ IF its = <<>> THEN Finish(Returns(<<>>), log)
                                 ELSE Continue("loop", log)

\* the loop reaches an item whose title or link element is missing
ItemMalformed ==
    /\ pc = "loop"
    /\ Malformed(source, items[Len(results) + 1])
    /\ UNCHANGED <<tool_name, source, caller, limit, state_id, rss_url, fault,
                   feed, items, results, pages, net, inputs, prev, other,
                   besideVars>>
    /\ Finish(Raises([type  |-> "AttributeError",
                      about |-> <<"item", Len(results) + 1>>]), log)

\* one pass of the loop: the item's article page is requested and answered,
\* its dict is appended; after the last item the scraper returns.  An
\* exception leaving the extractor would leave the loop and the scraper
ScrapeItem(p) ==
    /\ pc = "loop"
    /\ ~Malformed(source, items[Len(results) + 1])
    /\ Answers(p)
    /\ LET item == items[Len(results) + 1]
           url  == LinkOf(source, item)[1]
           x    == ExtractArticle(source, url, p)
           lg   == Append(log, [tag |-> "scraping", title |-> item.title[1]])
                       \o (IF IsNone(x.print) THEN <<>> ELSE <<x.print[1]>>)
           res  == AppendResult(results, MkResult(source, item, x.value))
       IN  /\ net' = net \o Requests(url, p)
           /\ inputs' = Append(inputs, [op |-> "page", r |-> p])
           /\ pages' = Append(pages, p)
           /\ UNCHANGED <<tool_name, source, caller, limit, state_id, rss_url,
                          fault, feed, items, prev, other, besideVars>>
           /\ IF x.raised
              THEN /\ results' = results
                   /\ Finish(Raises(x.e[1]), lg)
              ELSE /\ results' = res
                   /\ IF Len(res) = Len(items) THEN Finish(Returns(res), lg)
                                               ELSE Continue("loop", lg)

Next ==
    \/ \E src \in Sources, cl \in Callers, n \in Limits,
          sid \in StateArgs : Invoke(src, cl, n, sid)
    \/ \E r \in IndexResponses : IndexResponse(r)
    \/ \E r \in FeedResponses : FeedResponse(r)
    \/ ItemMalformed
    \/ \E p \in PageResponses : ScrapeItem(p)
    \/ Leave
    \/ \E name \in ToolNames, raises \in BOOLEAN : CallToolNoRun(name, raises)

Spec == Init /\ [][Next]_vars

\* the call that just ended is made once more, with the same arguments, and
\* the network will answer it as it answered the first
Repeat ==
    /\ pc = "done"
    /\ outcome # "none"
    /\ IsNone(prev)
    /\ prev' = Some(ThisCall)
    /\ Enter(source, caller, limit, state_id)
    /\ UNCHANGED <<other, besideVars>>

\* the feed responses of those runs
RepeatFeedResponses ==
    {r \in FeedResponses :
         r.fetch = "ok" => Len(r.doc[1].entries) <= MaxRepeatFeed}

NextRepeat ==
    \/ \E src \in Sources, cl \in Callers, n \in Limits,
          sid \in StateArgs : Invoke(src, cl, n, sid)
    \/ \E r \in IndexResponses : IndexResponse(r)
    \/ \E r \in RepeatFeedResponses : FeedResponse(r)
    \/ ItemMalformed
    \/ \E p \in PageResponses : ScrapeItem(p)
    \/ Leave
    \/ Repeat

\* calls one after the other, any of them made a second time
SpecRepeat == Init /\ [][NextRepeat]_vars

\* the scheduler takes the call that runs beside this one: each call keeps
\* its own locals
Switch ==
    /\ other' = ThisCall
    /\ Load(other)
    /\ UNCHANGED <<prev, besideVars>>

\* the sources and the feed responses of the runs with two calls
SideSources == {"national", "sports"}

SideFeedResponses ==
    {r \in FeedResponses :
         r.fetch = "ok" => Len(r.doc[1].entries) <= MaxSideFeed}

NextSide ==
    \/ \E src \in SideSources, n \in 0..MaxSideLimit :
          /\ other.pc # "idle" => other.source # src
          /\ Invoke(src, "agent", n, None)
    \/ \E r \in SideFeedResponses : FeedResponse(r)
    \/ ItemMalformed
    \/ \E p \in PageResponses : ScrapeItem(p)
    \/ Switch

\* two calls for different sources, their steps interleaved in any way
SpecSide == Init /\ [][NextSide]_vars

-----------------------------------------------------------------------------
(* The runs of the agents in one session *)

\* before_agent_callback: an agent of the pipeline starts
BeforeAgent ==
    /\ agent_pc = "rest"
    /\ (IF IsNone(ctx_state.run_counter) THEN 0
                                         ELSE ctx_state.run_counter[1]) < MaxRuns
    /\ ctx_state' =
           [ctx_state EXCEPT
               !.run_counter = Some((IF IsNone(@) THEN 0 ELSE @[1]) + 1),
               !.last_agent_start = Some("timestamp")]
    /\ agent_pc' = "started"
    /\ UNCHANGED <<llm_contents, guard_ret, state_before, besideGuard>>

\* before_model_callback: the agent is about to call the model with the
\* contents cs, and input_guardrail decides
GuardRequest(cs) ==
    /\ agent_pc = "started"
    /\ LET g == InputGuardrail(ctx_state, cs)
       IN  /\ guard_ret' = g.ret
           /\ ctx_state' = g.state
    /\ state_before' = ctx_state
    /\ llm_contents' = cs
    /\ agent_pc' = "guarded"
    /\ UNCHANGED besideGuard

\* after_agent_callback: the agent has ended, its request is gone
AfterAgent ==
    /\ agent_pc \in {"started", "guarded"}
    /\ ctx_state' = [ctx_state EXCEPT !.last_agent_end = Some("timestamp")]
    /\ agent_pc' = "rest"
    /\ llm_contents' = <<>>
    /\ guard_ret' = None
    /\ state_before' = ctx_state'
    /\ UNCHANGED besideGuard

NextGuard ==
    \/ BeforeAgent
    \/ \E cs \in RequestContents : GuardRequest(cs)
    \/ AfterAgent

\* the requests of one session, one after the other
SpecGuard == Init /\ [][NextGuard]_vars

-----------------------------------------------------------------------------
(* A call of send_email_smtp *)

\* send_email_smtp(to_addr, subject, html_body) is entered in the environment
\* of a: the port is read, the arguments are tested
SendEmail(a) ==
    /\ mail_pc = "idle"
    /\ mail_args' = a
    /\ smtp_ops' = <<>>
    /\ LET port == IntOf(PortText(a))
           err  == MailCheck(a)
       IN  IF port.raised
           THEN /\ mail_pc' = "done"
                /\ mail_ret' = None
                /\ mail_exc' = Some([type |-> "ValueError", about |-> PortText(a)])
           ELSE IF ~IsNone(err)
           THEN /\ mail_pc' = "done"
                /\ mail_ret' = err
                /\ mail_exc' = None
           ELSE /\ mail_pc' = "connect"
                /\ mail_ret' = None
                /\ mail_exc' = None
    /\ UNCHANGED besideMail

\* the next step inside the try: it succeeds, or raises and the except
\* clause returns the error text; after the last one "OK" is returned
SmtpStep(ok) ==
    /\ mail_pc \in {"connect", "starttls", "login", "send"}
    /\ smtp_ops' = Append(smtp_ops, [op |-> mail_pc, ok |-> ok])
    /\ IF ~ok
       THEN /\ mail_pc' = "done"
            /\ mail_ret' = Some(<<"ERROR: ", mail_pc>>)
       ELSE /\ mail_pc' = StepAfter(mail_pc)
            /\ mail_ret' = IF mail_pc = "send" THEN Some(<<"OK">>) ELSE None
    /\ UNCHANGED <<mail_args, mail_exc, besideMail>>

\* the caller has the result
MailLeave ==
    /\ mail_pc = "done"
    /\ mail_pc' = "idle"
    /\ mail_args' = NoMail
    /\ smtp_ops' = <<>>
    /\ mail_ret' = None
    /\ mail_exc' = None
    /\ UNCHANGED besideMail

NextMail ==
    \/ \E a \in MailArgs : SendEmail(a)
    \/ \E ok \in BOOLEAN : SmtpStep(ok)
    \/ MailLeave

\* calls of send_email_smtp, one after the other
SpecMail == Init /\ [][NextMail]_vars

-----------------------------------------------------------------------------
(* The runs of the front-end's script in one browser session *)

\* a quick-action or example button: the query is kept for the next run
QuickAction(q) ==
    /\ front_pc = "ready"
    /\ quick_query' = Some(q)
    /\ UNCHANGED <<front_pc, chat_history, processing, user_input,
                   adk_session_id, adk_session_initialized, adk_sessions,
                   runner_runs, besideFront>>

\* main() up to the agent call: the input is the chat input, or else the
\* quick query; with an input and processing False the flag is set and the
\* user message appended, and send_message_to_agent is entered
HandleInput(prompt) ==
    /\ front_pc = "ready"
    /\ Len(chat_history) < 2 * MaxChat
    /\ LET input == IF Truthy(prompt) THEN prompt ELSE quick_query
       IN  /\ quick_query' = None
           /\ IF Truthy(input) /\ ~processing
              THEN /\ processing' = TRUE
                   /\ chat_history' = ChatAppend(chat_history, "user", input[1])
                   /\ user_input' = input
                   /\ front_pc' = "init"
              ELSE UNCHANGED <<processing, chat_history, user_input, front_pc>>
    /\ UNCHANGED <<adk_session_id, adk_session_initialized, adk_sessions,
                   runner_runs, besideFront>>

\* send_message_to_agent: await init_adk_session(), whose result is not
\* looked at; ok tells whether the call of the session service succeeded
InitSession(ok) ==
    /\ front_pc = "init"
    /\ LET x == InitAdkSession(ok)
       IN  /\ adk_sessions' = x.sessions
           /\ adk_session_initialized' = x.flag
    /\ front_pc' = "run"
    /\ UNCHANGED <<chat_history, processing, quick_query, user_input,
                   adk_session_id, runner_runs, besideFront>>

\* runner.run under the session ID, and the rest of the handling: the
\* assistant message is appended (the response, or the error text when
\* asyncio.run raised: failed), and the flag is cleared
RunAgent(o, failed) ==
    /\ front_pc = "run"
    /\ runner_runs' =
           Append(runner_runs,
                  [session_id |-> adk_session_id,
                   created    |-> \E k \in 1..Len(adk_sessions) :
                                     adk_sessions[k] = adk_session_id])
    /\ chat_history' =
           ChatAppend(chat_history, "assistant",
                      IF failed THEN <<"Error: ", "error">> ELSE AgentResponse(o))
    /\ processing' = FALSE
    /\ user_input' = None
    /\ front_pc' = "ready"
    /\ UNCHANGED <<quick_query, adk_session_id, adk_session_initialized,
                   adk_sessions, besideFront>>

\* the 'Save Preferences' button: update_user_preferences calls
\* init_adk_session too
SavePreferences(ok) ==
    /\ front_pc = "ready"
    /\ LET x == InitAdkSession(ok)
       IN  /\ adk_sessions' = x.sessions
           /\ adk_session_initialized' = x.flag
    /\ UNCHANGED <<front_pc, chat_history, processing, quick_query, user_input,
                   adk_session_id, runner_runs, besideFront>>

\* the 'Clear Chat History' button: a new session ID is drawn
ClearChat ==
    /\ front_pc = "ready"
    /\ adk_session_id < MaxSessionIds
    /\ chat_history' = <<>>
    /\ adk_session_id' = adk_session_id + 1
    /\ adk_session_initialized' = FALSE
    /\ UNCHANGED <<front_pc, processing, quick_query, user_input, adk_sessions,
                   runner_runs, besideFront>>

NextFront ==
    \/ \E q \in QuickQueries : QuickAction(q)
    \/ \E prompt \in Prompts : HandleInput(prompt)
    \/ \E ok \in BOOLEAN : InitSession(ok)
    \/ \E o \in AgentOutcomes, failed \in BOOLEAN : RunAgent(o, failed)
    \/ \E ok \in BOOLEAN : SavePreferences(ok)
    \/ ClearChat

\* the script runs of one browser session
SpecFront == Init /\ [][NextFront]_vars

-----------------------------------------------------------------------------
(* The calls of the CrewAI bridge in one process *)

\* crewai_bridge_agent is imported: the import of crewai succeeds or not
ImportBridge(avail) ==
    /\ IsNone(crewai_available)
    /\ crewai_available' = Some(avail)
    /\ UNCHANGED <<crewai_instance, crew_built, crew_log, besideCrew>>

\* analyze_news_with_crewai(articles, analysis_type); ok tells whether the
\* constructor returns if it is entered, kick whether crew.kickoff() does
AnalyzeNewsWithCrewai(articles, analysis_type, ok, kick) ==
    /\ ~IsNone(crewai_available)
    /\ Len(crew_log) < MaxCrewCalls
    /\ IF ~crewai_available[1]
       THEN /\ crew_log' =
                   Append(crew_log,
                          [had |-> crewai_instance, entered |-> FALSE,
                           used |-> None,
                           ret |-> [status  |-> "error",
                                    message |-> <<"CrewAI is not installed.">>]])
            /\ UNCHANGED <<crewai_instance, crew_built>>
       ELSE LET g == GetCrewaiInstance(crewai_instance, crew_built + 1, ok)
                r == AnalyzeNewsBatch(articles, analysis_type, kick)
            IN  /\ crewai_instance' = g.stored
                /\ crew_built' = IF g.entered THEN crew_built + 1 ELSE crew_built
                /\ crew_log' =
                       Append(crew_log,
                              [had |-> crewai_instance, entered |-> g.entered,
                               used |-> g.value,
                               ret |-> IF g.raised \/ r.raised
                                       THEN [status  |-> "error",
                                             message |-> <<"Failed to analyze with CrewAI: ",
                                                           "error">>]
                                       ELSE r.value])
    /\ UNCHANGED <<crewai_available, besideCrew>>

NextCrew ==
    \/ \E avail \in BOOLEAN : ImportBridge(avail)
    \/ \E articles \in ArticleLists, analysis_type \in AnalysisTypes,
          ok \in BOOLEAN, kick \in BOOLEAN :
              AnalyzeNewsWithCrewai(articles, analysis_type, ok, kick)

\* the calls of the bridge, one after the other
SpecCrew == Init /\ [][NextCrew]_vars

-----------------------------------------------------------------------------
(* A call as a function of its arguments and of the responses it receives *)

RECURSIVE RunLoop(_, _, _, _)
\* the loop over the items its, ps the page responses, acc the dicts so far
RunLoop(src, its, ps, acc) ==
    IF its = <<>> THEN Returns(acc)
    ELSE IF Malformed(src, its[1])
    THEN Raises([type |-> "AttributeError", about |-> <<"item", Len(acc) + 1>>])
    ELSE LET x == ExtractArticle(src, LinkOf(src, its[1])[1], ps[1])
         IN  IF x.raised THEN Raises(x.e[1])
             ELSE RunLoop(src, Tail(its), Tail(ps),
                          Append(acc, MkResult(src, its[1], x.value)))

\* the scraper from its feed request on, ins the responses from there on
RunFromFeed(src, url, n, ins) ==
    IF ins[1].r.fetch # "ok"
    THEN Raises([type |-> ins[1].r.fetch, about |-> url])
    ELSE RunLoop(src, SlicePrefix(ParseFeed(ins[1].r.doc[1]), n),
                 [k \in 1..(Len(ins) - 1) |-> ins[k + 1].r], <<>>)

\* scrape_<source>_top_n
RunScraper(src, sid, n, ins) ==
    IF src # "states" THEN RunFromFeed(src, StaticFeedUrl(src), n, ins)
    ELSE IF ins[1].r.fetch # "ok"
    THEN Raises([type |-> ins[1].r.fetch, about |-> INDEX_URL])
    ELSE LET x == ResolveFeed(ins[1].r.page, sid[1], <<>>)
         IN  IF x.ended THEN x.so ELSE RunFromFeed(src, x.href[1], n, Tail(ins))

\* the tool call: how it ends, given the responses ins
RunAlone(src, cl, n, sid, ins) ==
    LET g == IF cl = "agent" THEN ToolGuardrail(ToolName(src), sid) ELSE None
    IN  IF ~IsNone(g)
        THEN [outcome |-> "returned",
              ret     |-> [form          |-> "dict",
                           status        |-> g[1].status,
                           error_message |-> g[1].error_message],
              exc     |-> None]
        ELSE LET so == ScraperExit(src, RunScraper(src, sid, n, ins), <<>>).so
             IN  IF cl = "agent" THEN GetNews(so) ELSE GetNewsMcp(src, sid, so)

-----------------------------------------------------------------------------
(* What a finished call shows *)

\* the tool function returned a sequence of records: the agent tool's list,
\* or the MCP tool's "articles" under status "success"
HasArticles ==
    /\ pc = "done"
    /\ outcome = "returned"
    /\ IF ret.form = "dict" THEN ret.status = "success" ELSE ret.form = "list"

\* the agent's tool function ran and returned its list
AgentReturned ==
    pc = "done" /\ caller = "agent" /\ outcome = "returned" /\ ret.form = "list"

McpSuccess == pc = "done" /\ caller = "mcp" /\ HasArticles

\* the feed was fetched and parsed
FeedParsed == ~IsNone(feed) /\ feed[1].wellformed

\* what the extractor made of the page answered for the i-th item
BodyOf(i) == ExtractArticle(source, LinkOf(source, items[i])[1], pages[i]).value

PageFaulty(p) == p.fetch # "ok" \/ IsNone(p.container)

RECURSIVE IsSubseq(_, _)
\* a is b with some elements left out
IsSubseq(a, b) ==
    IF a = <<>> THEN TRUE
    ELSE IF b = <<>> THEN FALSE
    ELSE IF a[1] = b[1] THEN IsSubseq(Tail(a), Tail(b))
    ELSE IsSubseq(a, Tail(b))

\* title and link of the returned records, and of the feed's entries
KeysOfRecords(rs) == [k \in 1..Len(rs) |-> <<Some(rs[k].title), Some(rs[k].link)>>]

KeysOfEntries(es) == [k \in 1..Len(es) |-> <<es[k].title, LinkOf(source, es[k])>>]

-----------------------------------------------------------------------------
(* Claims *)

\* C1: every record returned by get_national_news, get_international_news,
\* get_sports_news and get_states_news has a non-empty article body: an item
\* whose extraction returned None or the empty string is not in the result.
C1_NoBodyExcluded ==
    AgentReturned =>
        \A k \in 1..Len(ret.articles) : Truthy(ret.articles[k].article)

\* a call returned a record although one extraction of the batch returned None
\* and another the empty string
C1_Witness ==
    /\ AgentReturned
    /\ Len(ret.articles) >= 1
    /\ \E i \in 1..Len(pages) : IsNone(BodyOf(i))
    /\ \E i \in 1..Len(pages) : BodyOf(i) = Some(<<>>)

\* C2: every entry of the "articles" list returned by the MCP tools has a
\* non-empty article body, also when some article extractions failed.
C2_McpNoBodyExcluded ==
    McpSuccess =>
        \A k \in 1..Len(ret.articles) : Truthy(ret.articles[k].article)

\* C3: the returned records are in the relative order of their items in the
\* feed document, whatever subset of extractions failed.
C3_FeedOrderKept ==
    HasArticles /\ FeedParsed =>
        IsSubseq(KeysOfRecords(ret.articles), KeysOfEntries(feed[1].entries))

\* two records were returned around an item that was dropped
C3_Witness ==
    /\ AgentReturned
    /\ Len(pages) = 3
    /\ ~Truthy(BodyOf(2))
    /\ Len(ret.articles) = 2
    /\ ret.articles[1].link = <<"link", 1>>
    /\ ret.articles[2].link = <<"link", 3>>

\* C4: with limit = N the returned sequence has at most N elements, for
\* every feed length.
C4_AtMostLimit == HasArticles => Len(ret.articles) <= limit

\* a feed longer than the limit, and exactly limit records returned
C4_Witness ==
    /\ AgentReturned
    /\ FeedParsed
    /\ limit >= 1
    /\ Len(feed[1].entries) > limit
    /\ Len(ret.articles) = limit

\* the indexes of the items whose extraction gave a non-empty body
WithBody == SelectSeq([k \in 1..Len(pages) |-> k], LAMBDA k : Truthy(BodyOf(k)))

\* record r carries entry e's title, link, date and image URL
Carries(r, e) ==
    /\ Some(r.title) = e.title
    /\ Some(r.link) = LinkOf(source, e)
    /\ Some(r.date) = e.pubDate
    /\ r.image_url = ImageOf(source, e)

\* C5: when the feed is fetched and parsed, the result of an aggregation call
\* with limit N is exactly the first N feed items whose extraction gave a
\* non-empty body, in feed order, each record carrying its item's title,
\* link, date and image URL; it has fewer than N elements iff some extraction
\* failed or the feed had fewer than N items.
C5_ExactlyTheItemsWithBody ==
    (/\ pc = "done"
     /\ caller = "agent"
     /\ FeedParsed
     /\ \A k \in 1..Len(feed[1].entries) : ~Malformed(source, feed[1].entries[k]))
    =>
    /\ outcome = "returned"
    /\ Len(pages) = Min(limit, Len(feed[1].entries))
    /\ Len(ret.articles) = Len(WithBody)
    /\ \A j \in 1..Len(WithBody) :
           /\ Carries(ret.articles[j], feed[1].entries[WithBody[j]])
           /\ ret.articles[j].article = BodyOf(WithBody[j])
    /\ (Len(ret.articles) < limit) <=>
           \/ \E k \in 1..Len(pages) : ~Truthy(BodyOf(k))
           \/ Len(feed[1].entries) < limit

\* C6: when the feed endpoint is unreachable, times out or answers with a
\* non-2xx status, the aggregation call of every source returns an empty
\* sequence and raises nothing into the caller.
C6_FeedDownYieldsEmpty ==
    (pc = "done" /\ caller = "agent" /\ fault = "feed_fetch") =>
        /\ outcome = "returned"
        /\ ret.articles = <<>>

\* the i-th item was returned: a record has its title and link
InResult(i) ==
    /\ outcome = "returned"
    /\ \E m \in 1..Len(ret.articles) :
           /\ ret.articles[m].title = items[i].title[1]
           /\ ret.articles[m].link = LinkOf(source, items[i])[1]

\* C7: a fault in the extraction of item k neither stops the batch nor
\* changes what happens to another item: every other item among the first N
\* is still extracted, and is returned iff its own extraction gave a
\* non-empty body.
C7_ExtractionFaultIsolated ==
    (/\ pc = "done"
     /\ caller = "agent"
     /\ FeedParsed
     /\ \A k \in 1..Len(items) : ~Malformed(source, items[k]))
    =>
    \A k \in 1..Len(pages) : PageFaulty(pages[k]) =>
        \A j \in (1..Len(items)) \ {k} :
            /\ j <= Len(pages)
            /\ Truthy(BodyOf(j)) <=> InResult(j)

\* C8: a region identifier that is not on the index page makes the States
\* aggregation call return an empty sequence, with the failure logged and
\* nothing raised.
C8_UnknownRegionYieldsEmpty ==
    (pc = "done" /\ caller = "agent" /\ fault = "region_not_found") =>
        /\ outcome = "returned"
        /\ IsNone(exc)
        /\ ret.articles = <<>>
        /\ \E k \in 1..Len(log) :
               log[k].tag = "no_link_found" /\ log[k].id = state_id[1]

\* get_states_news ended for a region the index page does not list, after the
\* index page was fetched
C8_Witness ==
    /\ pc = "done"
    /\ caller = "agent"
    /\ source = "states"
    /\ state_id = Some(<<"pune">>)
    /\ fault = "region_not_found"
    /\ net = <<INDEX_URL>>

\* what the outcome of a States call reports about its feed resolution: the
\* return value is [] for every failure, so it is what was printed
Reported ==
    IF \E k \in 1..Len(log) : log[k].tag = "no_link_found"
    THEN "region_not_found"
    ELSE IF \E k \in 1..Len(log) :
                /\ log[k].tag = "states_error"
                /\ log[k].e.type \in FetchErrors
                /\ Some(log[k].e.about) = rss_url
    THEN "feed_fetch"
    ELSE IF \E k \in 1..Len(log) : log[k].tag = "states_error"
    THEN "error"
    ELSE "none"

\* C9: the States adapter fails distinctly at each hop: "region identifier
\* not found", "feed fetch failed" and "feed parse failed" give outcomes that
\* a caller or operator can tell apart.
C9_HopFailuresDistinct ==
    (/\ pc = "done"
     /\ source = "states"
     /\ fault \in {"region_not_found", "feed_fetch", "feed_parse"})
    => Reported = fault

\* the article page of the i-th item was requested
Requested(i) == \E m \in 1..Len(net) : net[m] = LinkOf(source, items[i])[1]

\* C10: a feed entry without a title (or link) is skipped and is not fatal to
\* the feed: the other entries among the first N are still processed, and
\* returned when their extraction succeeds.
C10_MalformedEntrySkipped ==
    (/\ pc = "done"
     /\ caller = "agent"
     /\ FeedParsed
     /\ \E i \in 1..Len(items) : Malformed(source, items[i]))
    =>
    \A j \in 1..Len(items) : ~Malformed(source, items[j]) =>
        /\ Requested(j)
        /\ j <= Len(pages)
        /\ Truthy(BodyOf(j)) => InResult(j)

\* C11: a feed item without a publish date whose extraction succeeds still
\* yields a record in the result of get_<category>_news / get_states_news;
\* the missing date neither makes the call fail nor drops the other items.
C11_DatelessItemReturned ==
    (/\ pc = "done"
     /\ caller = "agent"
     /\ FeedParsed
     /\ \A k \in 1..Len(items) : ~Malformed(source, items[k])
     /\ \E k \in 1..Len(items) : IsNone(items[k].pubDate))
    =>
    /\ outcome = "returned"
    /\ \A j \in 1..Len(items) :
           /\ j <= Len(pages)
           /\ Truthy(BodyOf(j)) => InResult(j)

\* C12: no two returned records have the same link, also when the feed lists
\* one link in more than one of its first N items.
C12_LinksUnique ==
    HasArticles =>
        \A a, b \in 1..Len(ret.articles) :
            a # b => ret.articles[a].link # ret.articles[b].link

\* the log has an entry about the failure of the extraction of url
FailureLogged(url) ==
    \E m \in 1..Len(log) :
        /\ log[m].tag \in {"extract_error", "no_container"}
        /\ log[m].url = url

\* C13: every item left out of the result is observable in the log: for
\* each omitted item there is a log entry identifying its failure, also for
\* an item dropped because its container had no paragraph text.
C13_OmissionLogged ==
    (AgentReturned /\ FeedParsed) =>
        \A k \in 1..Len(pages) :
            ~InResult(k) => FailureLogged(LinkOf(source, items[k])[1])

\* C14: the extractors never raise: when the page fetch fails, times out or
\* answers with a non-2xx status, or the content container is not found, the
\* extractor returns None after logging, for every URL; the loop goes on
\* with the item's dict.
C14_ExtractorNeverRaises ==
    /\ Len(results) = Len(pages)
    /\ \A k \in 1..Len(pages) : PageFaulty(pages[k]) =>
           /\ IsNone(results[k].article)
           /\ FailureLogged(results[k].link)

\* a call went through a page that timed out, a page answered with an error
\* status and a page without the container, and ended by returning
C14_Witness ==
    /\ pc = "done"
    /\ outcome = "returned"
    /\ Len(results) = 3
    /\ \E k \in 1..3 : pages[k].fetch = "Timeout"
    /\ \E k \in 1..3 : pages[k].fetch = "HTTPError"
    /\ \E k \in 1..3 : pages[k] = PageNoContainer

\* C18: the MCP tools never raise: a total failure of the source (the feed
\* unreachable, or a region identifier that is not valid) is returned as
\* {status: "error", error_message}, and status "success" is returned only
\* when the feed was fetched and parsed.
C18_McpFailureIsError ==
    (pc = "done" /\ caller = "mcp" /\ outcome # "none") =>
        /\ outcome = "returned"
        /\ ret.form = "dict"
        /\ fault \in {"index_fetch", "region_not_found", "feed_fetch"} =>
               ret.status = "error"
        /\ ret.status = "success" => FeedParsed

RECURSIVE ParagraphText(_)
\* the texts of the p nodes among nodes, in their order, a newline between
\* one and the next
ParagraphText(nodes) ==
    IF nodes = <<>> THEN <<>>
    ELSE IF nodes[1].tag # "p" THEN ParagraphText(Tail(nodes))
    ELSE IF \A k \in 2..Len(nodes) : nodes[k].tag # "p" THEN nodes[1].text
    ELSE nodes[1].text \o <<"\n">> \o ParagraphText(Tail(nodes))

\* C20: for every adapter, when the content container is found the
\* extractor returns the texts of the paragraphs inside it, in document
\* order, joined by single newlines, and nothing else from the page; a
\* container without paragraphs yields the empty string.
C20_ParagraphsOnly ==
    \A k \in 1..Len(results) : ~PageFaulty(pages[k]) =>
        results[k].article = Some(ParagraphText(pages[k].container[1]))

\* the call was answered by tool_guardrail in the tool's place
Blocked == pc = "done" /\ caller = "agent" /\ ret.form = "dict"

\* C19: a get_states_news tool call whose state argument is missing, empty
\* or, lowercased and trimmed, no member of VALID_STATES is answered by
\* tool_guardrail with {status: "error", error_message} and the States
\* scraper is not invoked for it; calls of every other tool, and
\* get_states_news calls with a valid state, are let through.
C19_GuardrailBlocksInvalidState ==
    (pc # "idle" /\ caller = "agent") =>
        LET invalid ==
                /\ source = "states"
                /\ \/ IsNone(state_id)
                   \/ Strip(Lower(state_id[1])) = <<>>
                   \/ Strip(Lower(state_id[1])) \notin VALID_STATES
        IN  /\ invalid => (Blocked /\ ret.status = "error" /\ net = <<>>)
            /\ ~invalid => ~Blocked

\* a call for a state that is not valid was answered with the error dict, no
\* request having been made
C19_Witness ==
    /\ Blocked
    /\ source = "states"
    /\ state_id = Some(<<"atlantis">>)
    /\ ret.status = "error"
    /\ net = <<>>

\* how many of the first k responses answered an article page request
PagesAmong(k) == Cardinality({j \in 1..k : inputs[j].op = "page"})

\* the URL of the call's k-th network operation
OpUrl(k) ==
    CASE inputs[k].op = "index" -> INDEX_URL
      [] inputs[k].op = "feed"  -> rss_url[1]
      [] inputs[k].op = "page"  -> LinkOf(source, items[PagesAmong(k)])[1]

\* C15: no retry and no cache: within one call the index page, the feed and
\* each article page are requested exactly once, a failed request is not
\* issued again, and a second call fetches the feed and every article again.
C15_NoRetryNoCache ==
    /\ net = [k \in 1..Len(inputs) |-> OpUrl(k)]
    /\ Cardinality({k \in 1..Len(inputs) : inputs[k].op = "index"}) <= 1
    /\ Cardinality({k \in 1..Len(inputs) : inputs[k].op = "feed"}) <= 1
    /\ PagesAmong(Len(inputs)) = Len(pages)
    /\ Len(pages) <= Len(items)
    /\ (pc = "done" /\ ~IsNone(prev)) => net = prev[1].net

\* a call with a failed page request among three requests was made a second
\* time and issued the three requests again
C15_Witness ==
    /\ pc = "done"
    /\ ~IsNone(prev)
    /\ Len(net) = 3
    /\ net = prev[1].net
    /\ \E k \in 1..Len(pages) : pages[k].fetch = "Timeout"

\* C16: the system is stateless across calls and parsing is a pure function
\* of its input: a call that receives the feed document and the article page
\* responses that an earlier call received returns the record sequence that
\* the earlier call returned.
C16_SameInputsSameRecords ==
    (pc = "done" /\ ~IsNone(prev) /\ inputs = prev[1].inputs) =>
        /\ items = prev[1].items
        /\ outcome = prev[1].outcome
        /\ ret = prev[1].ret
        /\ exc = prev[1].exc

\* the second of two calls with the same responses returned two records
C16_Witness ==
    /\ pc = "done"
    /\ ~IsNone(prev)
    /\ inputs = prev[1].inputs
    /\ Len(pages) = 2
    /\ AgentReturned
    /\ Len(ret.articles) = 2

\* the call with locals c has in its results the dicts of its own items, and
\* once ended shows what it shows when it runs alone on its responses
AsAlone(c) ==
    /\ c.results =
           [k \in 1..Len(c.pages) |->
               MkResult(c.source, c.items[k],
                        ExtractArticle(c.source, LinkOf(c.source, c.items[k])[1],
                                       c.pages[k]).value)]
    /\ c.pc = "done" =>
           [outcome |-> c.outcome, ret |-> c.ret, exc |-> c.exc]
               = RunAlone(c.source, c.caller, c.limit, c.state_id, c.inputs)

\* C17: calls for different sources that run concurrently do not affect each
\* other: under every interleaving each call's result is the result the call
\* gives when run alone, and the total failure of one source (its feed
\* answers with an error status) leaves the result of the other as it is.
C17_ConcurrentCallsIsolated == AsAlone(ThisCall) /\ AsAlone(other)

\* a call returned a record while the call for another source was between
\* its feed and its first article page
C17_Witness ==
    /\ pc = "done"
    /\ AgentReturned
    /\ Len(ret.articles) = 1
    /\ other.pc = "loop"
    /\ other.source # source

\* the positions, among the call's network operations, of those of one kind
OpsOf(kind) == {k \in 1..Len(inputs) : inputs[k].op = kind}

\* C21: within one call the feed is fetched exactly once and before any
\* article page; the article pages are then requested one at a time in feed
\* order, for the first N items only: no page of an item beyond position N
\* is requested, and none at all when the feed fetch fails.
C21_FeedOnceThenPagesInOrder ==
    /\ Len(net) = Len(inputs)
    /\ Cardinality(OpsOf("feed")) <= 1
    /\ pc = "loop" => Cardinality(OpsOf("feed")) = 1
    /\ (pc = "done" /\ source # "states" /\ outcome # "none" /\ ~Blocked) =>
           Cardinality(OpsOf("feed")) = 1
    /\ \A k \in OpsOf("page") : \E j \in OpsOf("feed") :
           /\ j < k
           /\ net[j] = rss_url[1]
           /\ k - j <= limit
           /\ k - j <= Len(feed[1].entries)
           /\ net[k] = LinkOf(source, feed[1].entries[k - j])[1]
           /\ \A m \in (j + 1)..k : inputs[m].op = "page"
    /\ fault = "feed_fetch" => OpsOf("page") = {}

\* a call with limit 2 on a feed of three items ended after the feed request
\* and the requests of the first two items' pages
C21_Witness ==
    /\ pc = "done"
    /\ limit = 2
    /\ FeedParsed
    /\ Len(feed[1].entries) = 3
    /\ net = <<rss_url[1], <<"link", 1>>, <<"link", 2>>>>

\* C22: the States adapter resolves its feed in two ordered steps: the index
\* page is fetched first; the region feed is requested only after the anchor
\* with the caller's region identifier was found on the index page, at that
\* anchor's href; when the identifier is not found or the index fetch fails,
\* neither a feed nor an article page is requested.
C22_IndexThenRegionFeed ==
    (source = "states" /\ pc # "idle") =>
        /\ Len(net) = Len(inputs)
        /\ Len(net) >= 1 => (inputs[1].op = "index" /\ net[1] = INDEX_URL)
        /\ OpsOf("index") \subseteq {1}
        /\ \A k \in OpsOf("feed") :
               /\ k = 2
               /\ inputs[1].r.fetch = "ok"
               /\ \E a \in inputs[1].r.page :
                      a.id = state_id[1] /\ a.href = Some(net[k])
        /\ OpsOf("page") # {} => OpsOf("feed") # {}
        /\ fault \in {"index_fetch", "region_not_found"} => Len(net) = 1

\* a States call for a region of the index page requested the index page,
\* the region's feed and an article page
C22_Witness ==
    /\ pc = "done"
    /\ source = "states"
    /\ state_id = Some(<<"delhi">>)
    /\ net = <<INDEX_URL, <<"rss_delhi", 0>>, <<"link", 1>>>>

\* C24: whenever tool_guardrail lets a get_states_news call through, the
\* state handed to scrape_states_top_n and used as the lookup key on the
\* index page is a member of VALID_STATES, whatever the casing and the
\* surrounding whitespace of the argument.
C24_ValidatedValueIsUsed ==
    (caller = "agent" /\ source = "states" /\ pc # "idle" /\ ~Blocked) =>
        state_id[1] \in VALID_STATES

\* the names of the five exposed tools
ExposedNames == {ExposedTools[k].name : k \in 1..Len(ExposedTools)}

\* C23: call_mcp_tool never raises and always answers with one JSON text
\* result: for a name of none of the five exposed tools, the error object
\* "Tool '<name>' not implemented by this server." without running a
\* scraper; for a matching name it runs exactly that tool once and answers
\* with its result, or with an error object if the execution raised.
C23_CallToolAlwaysAnswers ==
    (pc = "done" /\ caller = "mcp") =>
        /\ outcome # "raised"
        /\ IsNone(exc)
        /\ ~IsNone(reply)
        /\ Len(reply[1]) = 1
        /\ reply[1][1].type = "text"
        /\ reply[1][1].text[1] = "json"
        /\ IF tool_name[1] \notin ExposedNames
           THEN /\ reply[1][1].text[2] =
                       [status        |-> "error",
                        error_message |-> <<"Tool '", tool_name[1],
                                            "' not implemented by this server.">>]
                /\ outcome = "none"
                /\ net = <<>>
           ELSE \/ /\ outcome = "returned"
                   /\ tool_name[1] = McpToolName(source)
                   /\ reply[1][1].text[2] = ret
                \/ /\ outcome = "none"
                   /\ net = <<>>
                   /\ reply[1][1].text[2].status = "error"

\* a request with the name of no exposed tool was answered
C23_Witness ==
    /\ pc = "done"
    /\ caller = "mcp"
    /\ tool_name = Some("get_weather")
    /\ ~IsNone(reply)
    /\ reply[1][1].text[2].status = "error"
    /\ net = <<>>

-----------------------------------------------------------------------------
(* C25, C26: input_guardrail and the session state *)

\* the contents of the guarded request that are user messages with a
\* non-empty text in their first part
UserMessages ==
    {k \in 1..Len(llm_contents) :
        /\ llm_contents[k].role = "user"
        /\ llm_contents[k].parts # <<>>
        /\ llm_contents[k].parts[1].text # None
        /\ llm_contents[k].parts[1].text[1] # <<>>}

\* the text of the most recent of them, in lower case
DecisiveText ==
    LET k == CHOOSE i \in UserMessages : \A j \in UserMessages : j <= i
    IN  Lower(llm_contents[k].parts[1].text[1])

HasBanned == \E w \in BANNED_WORDS : Contains(w, DecisiveText)

HasKeyword == \E w \in NEWS_KEYWORDS : Contains(w, DecisiveText)

BlockedWith(msg) ==
    /\ guard_ret = Some(LlmResponse(msg))
    /\ ctx_state = [state_before EXCEPT !.abort_pipeline = Some(TRUE),
                                        !.guardrail_output = Some(msg)]

LetThrough == guard_ret = None /\ ctx_state = state_before

\* C25: input_guardrail decides on the most recent user message with a
\* non-empty text in its first part: a banned phrase blocks with the
\* policy-violation message, before the keyword test; no news keyword blocks
\* with the news-assistant message; a block sets abort_pipeline = True and
\* guardrail_output = the message; otherwise, and without any user text, it
\* returns None and leaves the session state as it was
C25_GuardrailDecision ==
    agent_pc = "guarded" =>
        IF UserMessages = {} THEN LetThrough
        ELSE IF HasBanned THEN BlockedWith(POLICY_MSG)
        ELSE IF ~HasKeyword THEN BlockedWith(NEWS_MSG)
        ELSE LetThrough

\* a request whose last content is not a user message, and whose most recent
\* user message has a banned phrase and a news keyword, is blocked with the
\* policy-violation message
C25_Witness ==
    /\ agent_pc = "guarded"
    /\ Len(llm_contents) = 2
    /\ UserMessages = {1}
    /\ HasBanned /\ HasKeyword
    /\ BlockedWith(POLICY_MSG)

\* C26: in a session, abort_pipeline is True exactly when the most recent
\* request was blocked by input_guardrail, and guardrail_output reports a
\* block only then
C26_AbortReportsLastRequest ==
    agent_pc = "guarded" =>
        /\ ctx_state.abort_pipeline = Some(TRUE) <=> ~IsNone(guard_ret)
        /\ IsNone(guard_ret) => IsNone(ctx_state.guardrail_output)

-----------------------------------------------------------------------------
(* C27: send_email_smtp *)

MailDone == mail_pc = "done"

\* the arguments that must be refused
MailRefused ==
    \/ mail_args.user \in {None, Some(<<>>)}
    \/ mail_args.pass \in {None, Some(<<>>)}
    \/ mail_args.to_addr \in {None, Some(<<>>)}
    \/ \A k \in 1..Len(mail_args.to_addr[1]) : mail_args.to_addr[1][k] # "@"
    \/ mail_args.subject = <<>>
    \/ mail_args.html_body = <<>>

IsErrorText(r) == ~IsNone(r) /\ Len(r[1]) = 2 /\ r[1][1] = "ERROR: "

OpsDone == [k \in 1..Len(smtp_ops) |-> smtp_ops[k].op]

\* C27: send_email_smtp never raises and returns "OK" or a text starting
\* with "ERROR: "; refused arguments give an error with no SMTP connection
\* opened; otherwise starttls, login and send happen in that order and "OK"
\* is returned only if all three succeeded
C27_SendEmailNeverRaises ==
    MailDone =>
        /\ mail_exc = None
        /\ mail_ret = Some(<<"OK">>) \/ IsErrorText(mail_ret)
        /\ MailRefused => (smtp_ops = <<>> /\ IsErrorText(mail_ret))
        /\ ~MailRefused =>
               /\ smtp_ops # <<>>
               /\ OpsDone = SubSeq(SmtpSteps, 1, Len(smtp_ops))
        /\ mail_ret = Some(<<"OK">>) =>
               /\ OpsDone = SmtpSteps
               /\ \A k \in 1..Len(smtp_ops) : smtp_ops[k].ok

\* the same for the calls in which SMTP_PORT is unset or the text of a number
SendEmailWithNumericPort ==
    (MailDone /\ ~IntOf(PortText(mail_args)).raised) =>
        /\ mail_exc = None
        /\ mail_ret = Some(<<"OK">>) \/ IsErrorText(mail_ret)
        /\ MailRefused => (smtp_ops = <<>> /\ IsErrorText(mail_ret))
        /\ ~MailRefused =>
               /\ smtp_ops # <<>>
               /\ OpsDone = SubSeq(SmtpSteps, 1, Len(smtp_ops))
        /\ mail_ret = Some(<<"OK">>) =>
               /\ OpsDone = SmtpSteps
               /\ \A k \in 1..Len(smtp_ops) : smtp_ops[k].ok

-----------------------------------------------------------------------------
(* C28, C29: the front-end *)

Handling == front_pc # "ready"

RoleAt(k) == IF k % 2 = 1 THEN "user" ELSE "assistant"

C29_AgentRunsUnderCreatedSession ==
    /\ \A k \in 1..Len(runner_runs) : runner_runs[k].created
    /\ \A i, j \in 1..Len(adk_sessions) :
           adk_sessions[i] = adk_sessions[j] => i = j
    /\ adk_session_initialized =>
           \E k \in 1..Len(adk_sessions) : adk_sessions[k] = adk_session_id

-----------------------------------------------------------------------------
(* C30: the CrewAI singleton *)

\* the instances the calls so far were given
InstancesUsed ==
    {crew_log[k].used[1] : k \in {i \in 1..Len(crew_log) : ~IsNone(crew_log[i].used)}}

\* C30: the bridge holds at most one NewsAnalysisCrewAI instance: it is
\* built on the first call whose construction succeeds and every later call
\* gets that same instance; a construction that raises stores nothing,
\* analyze_news_with_crewai answers {status: "error"} instead of raising,
\* and the next call enters the constructor again
C30_OneCrewInstance ==
    /\ Cardinality(InstancesUsed) <= 1
    /\ IsNone(crewai_instance) <=> InstancesUsed = {}
    /\ ~IsNone(crewai_instance) => InstancesUsed = {crewai_instance[1]}
    /\ \A k \in 1..Len(crew_log) :
           LET c == crew_log[k]
           IN  /\ c.ret.status \in {"success", "error"}
               /\ ~IsNone(c.had) => (~c.entered /\ c.used = c.had)
               /\ (IsNone(c.had) /\ crewai_available[1]) => c.entered
               /\ (c.entered /\ IsNone(c.used)) =>
                      /\ c.ret.status = "error"
                      /\ k < Len(crew_log) => /\ IsNone(crew_log[k + 1].had)
                                               /\ crew_log[k + 1].entered

\* a construction that raised, then a call that built the instance, then a
\* call that was given the same instance without a construction
C30_Witness ==
    /\ Len(crew_log) = 3
    /\ crew_log[1].entered /\ IsNone(crew_log[1].used)
    /\ crew_log[1].ret.status = "error"
    /\ crew_log[2].entered /\ ~IsNone(crew_log[2].used)
    /\ ~crew_log[3].entered /\ crew_log[3].used = crew_log[2].used
    /\ crew_log[3].ret.status = "success"

====
